---- MODULE Spec2Model ----
(***************************************************************************)
(* Model of components/OpenStreetMap.tsx (eco-map): the pin markers, the   *)
(* route overlay and the route mode of the community map.                  *)
(*                                                                         *)
(* One action per handler: the [displayPins] effect (addPinsToMap and its  *)
(* retry timer), the popup route button (drawRoute), the two geolocation   *)
(* callbacks, the route panel's close button (clearRoute) and the timers.  *)
(* Leaflet layers are objects: every layer carries an id, and a fresh      *)
(* layer gets the smallest id no live object uses.                         *)
(***************************************************************************)
EXTENDS Integers, Sequences, FiniteSets, TLC

----------------------------------------------------------------------------
(* Bounds of the model *)

\* number of pins in the database (ids 1..MaxPins, in fetch order)
MaxPins == 2
\* position fixes the geolocation provider may report
MaxFixes == 1
\* geolocation requests that may be outstanding at once
MaxPending == 2
\* timers that may be pending at once
MaxTimers == 2
\* route lines that may be on the map at once
MaxLines == 2
\* half-width of the grid of coordinates calculateDistance is measured on
MaxGrid == 2

PinIds == 1..MaxPins

----------------------------------------------------------------------------
(* Coordinates: whole degrees.  Pin p lies at PinLoc(p); the provider      *)
(* reports one of UserFixes.                                               *)

PinLoc(p) == [lat |-> 10 * p, lng |-> 120 - 30 * p]

UserFixes == {[lat |-> 60 - 15 * k, lng |-> 100 + 20 * k] : k \in 1..MaxFixes}

NoLoc == [lat |-> 0, lng |-> 0]

----------------------------------------------------------------------------
(* calculateDistance, in fixed point: angles and ratios are scaled by      *)
(* SCALE, and every rounding is symmetric about zero as IEEE rounding is.  *)

\* three decimal digits
SCALE == 10 * 10 * 10
\* Math.PI
PI_S == (3142 * SCALE) \div 1000
\* const R = 6371
EarthRadiusKm == 6371

\* mutant of Quot: division rounding down
QuotFloor(a, b) == a \div b

\* division rounding toward zero
Quot(a, b) == IF a >= 0 THEN a \div b ELSE 0 - ((0 - a) \div b)

\* degrees to scaled radians: x * Math.PI / 180
ToRad(deg) == Quot(deg * PI_S, 180)

\* Math.sin of a scaled angle, |x| <= PI_S (Taylor series to x^9)
SinS(x) ==
  LET x2 == Quot(x * x, SCALE)
      t3 == Quot(Quot(x * x2, SCALE), 6)
      t5 == Quot(Quot(t3 * x2, SCALE), 20)
      t7 == Quot(Quot(t5 * x2, SCALE), 42)
      t9 == Quot(Quot(t7 * x2, SCALE), 72)
  IN  x - t3 + t5 - t7 + t9

\* Math.cos of a scaled angle, |x| <= PI_S / 2 (Taylor series to x^8)
CosS(x) ==
  LET x2 == Quot(x * x, SCALE)
      t2 == Quot(x2, 2)
      t4 == Quot(Quot(t2 * x2, SCALE), 12)
      t6 == Quot(Quot(t4 * x2, SCALE), 30)
      t8 == Quot(Quot(t6 * x2, SCALE), 56)
  IN  SCALE - t2 + t4 - t6 + t8

\* Math.sqrt of a scaled ratio in 0..SCALE
SqrtS(a) ==
  LET v == IF a < 0 THEN 0 ELSE a * SCALE
  IN  CHOOSE n \in 0..(SCALE + 1) : n * n <= v /\ (n + 1) * (n + 1) > v

\* Math.atan of a scaled ratio in 0..SCALE
AtanS(t) == Quot(t * 785, SCALE) + Quot(273 * Quot(t * (SCALE - t), SCALE), SCALE)

\* Math.atan2(y, x) for y, x >= 0
Atan2S(y, x) ==
  IF y = 0 THEN 0
  ELSE IF x >= y THEN AtanS(Quot(y * SCALE, x))
  ELSE Quot(PI_S, 2) - AtanS(Quot(x * SCALE, y))

\* src: calculateDistance(lat1, lon1, lat2, lon2), in km
calculateDistance(lat1, lon1, lat2, lon2) ==
  LET dLat == ToRad(lat2 - lat1)
      dLon == ToRad(lon2 - lon1)
      sLat == SinS(Quot(dLat, 2))
      sLon == SinS(Quot(dLon, 2))
      a == Quot(sLat * sLat, SCALE)
           + Quot(Quot(Quot(CosS(ToRad(lat1)) * CosS(ToRad(lat2)), SCALE) * sLon, SCALE)
                  * sLon, SCALE)
      c == 2 * Atan2S(SqrtS(a), SqrtS(SCALE - a))
  IN  Quot(EarthRadiusKm * c, SCALE)

----------------------------------------------------------------------------
(* Leaflet layers.  A layer is an object: id tells two layers of equal     *)
(* content apart, and a ref holds the id of its layer (0 for null).        *)
(* kind "pin" is an ordinary pin marker: cap is the pin                    *)
(* list of the render whose createPopupContent built its popup, so the     *)
(* route button of the marker runs that render's drawRoute and clearRoute. *)
(* kind "user" and "dest" are the two route markers and kind "line" is the *)
(* route polyline from `at` to PinLoc(pin).                                *)

PinMarker(i, p, list) ==
  [id |-> i, kind |-> "pin", pin |-> p, at |-> PinLoc(p), cap |-> list]

UserMarker(i, fix) ==
  [id |-> i, kind |-> "user", pin |-> 0, at |-> fix, cap |-> {}]

DestinationMarker(i, p) ==
  [id |-> i, kind |-> "dest", pin |-> p, at |-> PinLoc(p), cap |-> {}]

Polyline(i, fix, p) ==
  [id |-> i, kind |-> "line", pin |-> p, at |-> fix, cap |-> {}]

\* layer instanceof L.Marker
IsMarker(l) == l.kind \in {"pin", "user", "dest"}

\* layer instanceof L.Polyline
IsPolyline(l) == l.kind = "line"

NoRoute == [from |-> NoLoc, to |-> NoLoc, title |-> 0, distance |-> 0]

\* the camera: the last flyTo / fitBounds the map was given
InitialView == [op |-> "initial", sw |-> NoLoc, ne |-> NoLoc, zoom |-> 13]

\* mutant of FlyTo: the camera is fitted at once instead of flown to the point
FitNow(center, z) == [op |-> "fitBounds", sw |-> center, ne |-> center, zoom |-> 0]

FlyTo(center, z) == [op |-> "flyTo", sw |-> center, ne |-> center, zoom |-> z]

Min(S) == CHOOSE x \in S : \A y \in S : x <= y
Max(S) == CHOOSE x \in S : \A y \in S : x >= y

\* L.latLngBounds(points): the smallest box around the points
latLngBounds(points) ==
  [sw |-> [lat |-> Min({q.lat : q \in points}), lng |-> Min({q.lng : q \in points})],
   ne |-> [lat |-> Max({q.lat : q \in points}), lng |-> Max({q.lng : q \in points})]]

FitBounds(points) ==
  LET b == latLngBounds(points)
  IN  [op |-> "fitBounds", sw |-> b.sw, ne |-> b.ne, zoom |-> 0]

\* setTimeout callbacks
RetryTimer(list) ==
  [kind |-> "retry", delay |-> 500, cap |-> list, from |-> NoLoc, pin |-> 0]

FitPinsTimer(list) ==
  [kind |-> "fitPins", delay |-> 500, cap |-> list, from |-> NoLoc, pin |-> 0]

FitRouteTimer(fix, p) ==
  [kind |-> "fitRoute", delay |-> 1600, cap |-> {}, from |-> fix, pin |-> p]

----------------------------------------------------------------------------
(* Helpers on sets and sequences *)

RECURSIVE SortedSeq(_)
\* the pins of a list in list order (the fetch order, ascending id)
SortedSeq(S) ==
  IF S = {} THEN <<>> ELSE <<Min(S)>> \o SortedSeq(S \ {Min(S)})

Range(q) == {q[i] : i \in DOMAIN q}

\* mutant of RemoveAt: the entry stays in the queue
RemoveAtKeeps(q, i) == q

RemoveAt(q, i) == SubSeq(q, 1, i - 1) \o SubSeq(q, i + 1, Len(q))

RECURSIVE FilterSeq(_, _)
FilterSeq(q, kind) ==
  IF q = <<>> THEN <<>>
  ELSE (IF Head(q).kind = kind THEN <<>> ELSE <<Head(q)>>) \o FilterSeq(Tail(q), kind)

Ids(layers) == {l.id : l \in layers}

\* the smallest id no live layer uses
FreshId(used) ==
  CHOOSE k \in 1..(Cardinality(used) + 1) :
    k \notin used /\ \A j \in 1..(k - 1) : j \in used

\* the layers a set of references points to
Referenced(layers, refs) == {l \in layers : l.id \in refs}

\* mutant of NewMarkers: only the first pin of the list gets a marker
NewMarkersFirst(todo, list, used) ==
  IF todo = <<>> THEN <<>> ELSE <<PinMarker(FreshId(used), Head(todo), list)>>

RECURSIVE NewMarkers(_, _, _)
\* list.forEach(pin => L.marker(...).bindPopup(createPopupContent(pin))):
\* one new marker per pin of `todo`, each bound to the render with pin list `list`
NewMarkers(todo, list, used) ==
  IF todo = <<>> THEN <<>>
  ELSE LET i == FreshId(used)
       IN  <<PinMarker(i, Head(todo), list)>> \o NewMarkers(Tail(todo), list, used \cup {i})

----------------------------------------------------------------------------
(* State *)

VARIABLES
  displayPins,          \* the pins prop: the ids of the current pin list
  isGuest,              \* the isGuest prop
  geoSupported,         \* navigator.geolocation is there
  mapRef,               \* mapRef.current is a map (FALSE: null)
  mapLayers,            \* the marker and polyline layers of that map
  camera,               \* the last camera move the map was given
  allMarkersRef,        \* allMarkersRef.current: the ids of the tracked markers
  polylineRef,          \* polylineRef.current: a layer id, 0 for null
  userMarkerRef,        \* userMarkerRef.current
  destinationMarkerRef, \* destinationMarkerRef.current
  isRouteMode,          \* useState(false)
  routeDestination,     \* useState<Pin | null>: a pin id, 0 for null
  activeRoute,          \* useState<...| null>: NoRoute for null
  pending,              \* getCurrentPosition calls whose callback has not run
  timers,               \* setTimeout callbacks that have not run, oldest first
  locating,             \* history: the latest drawRoute still waits for its fix
  last                  \* history: the last event handled

vars == <<displayPins, isGuest, geoSupported, mapRef, mapLayers, camera,
          allMarkersRef, polylineRef, userMarkerRef, destinationMarkerRef,
          isRouteMode, routeDestination, activeRoute, pending, timers,
          locating, last>>

(* A pending request is the closure pair handed to getCurrentPosition:     *)
(* pin, and cap, the pin list of the render whose drawRoute and clearRoute *)
(* the callbacks run.  Requests are kept in the order they were issued.    *)
(* locating is history, not program state: it is set by drawRoute and      *)
(* reset when that request's callback runs or clearRoute runs, so while it *)
(* holds the newest pending request is the one being waited for.           *)
Request(p, list) == [pin |-> p, cap |-> list]

\* pending[i] is the request of the latest drawRoute, not yet cancelled
IsCurrent(i) == locating /\ i = Len(pending)

\* the modes of the route engine, read off the component's state
Locating == isRouteMode /\ locating

Browse == ~isRouteMode

RouteActive == isRouteMode /\ ~locating /\ activeRoute # NoRoute

Mode ==
  IF Browse THEN "Browse"
  ELSE IF Locating THEN "Locating"
  ELSE IF RouteActive THEN "RouteActive"
  ELSE "Stalled"

\* the record of an event: the mode it was handled in and the number of route
\* lines the map held when it arrived
Event(op, p, cur) ==
  [op |-> op, pin |-> p, cur |-> cur, from |-> Mode,
   lines |-> Cardinality({l \in mapLayers : l.kind = "line"})]

PinMarkersOn(layers) == {l \in layers : l.kind = "pin"}

RouteLayersOn(layers) == {l \in layers : l.kind \in {"user", "dest", "line"}}

----------------------------------------------------------------------------
(* The layer objects and the refs to them, as one value.  Ids are opaque,  *)
(* so after every step the live objects are renumbered 1..n in a fixed     *)
(* order (Canon): the layers on the map first, then the objects a ref      *)
(* still points to although they left the map.                             *)

Objects ==
  [layers |-> mapLayers, tracked |-> allMarkersRef, poly |-> polylineRef,
   user |-> userMarkerRef, dest |-> destinationMarkerRef]

RouteRefsOf(h) == {h.poly, h.user, h.dest} \ {0}

RefsOf(h) == RouteRefsOf(h) \cup Range(h.tracked)

LiveIds(h) == Ids(h.layers) \cup RefsOf(h)

KindIndex(k) == CASE k = "pin" -> 1 [] k = "user" -> 2 [] k = "dest" -> 3 [] OTHER -> 4

\* a number for a pin list
CapCode(S) == IF S = {} THEN 0 ELSE Min(S) + (MaxPins + 1) * Cardinality(S)

Rank(l, refs) ==
  ((((IF l.id \in refs THEN 0 ELSE 1) * 5 + KindIndex(l.kind)) * (MaxPins + 1) + l.pin)
     * ((MaxPins + 1) * (MaxPins + 1)) + CapCode(l.cap)) * 40000
  + l.at.lat * 400 + l.at.lng

\* the layers in canonical order: position of each layer of the map
CanonOrder(h) ==
  {[l \in h.layers |-> 1 + Cardinality({x \in h.layers : rk[x] < rk[l]})] :
     rk \in {[l \in h.layers |-> Rank(l, RefsOf(h)) * 20 + l.id]}}

\* h with every id renamed: a layer of the map to its position, an object off
\* the map to its position among the refs that still hold one
Renamed(h, onMap) ==
  LET on == Ids(h.layers)
      off == SelectSeq(<<h.poly, h.user, h.dest>> \o h.tracked,
                       LAMBDA i : i # 0 /\ i \notin on)
      To(i) == IF i = 0 THEN 0
               ELSE IF i \in on THEN onMap[CHOOSE l \in h.layers : l.id = i]
               ELSE Cardinality(on) + (CHOOSE j \in DOMAIN off : off[j] = i)
  IN  [layers |-> {[l EXCEPT !.id = onMap[l]] : l \in h.layers},
       tracked |-> [j \in DOMAIN h.tracked |-> To(h.tracked[j])],
       poly |-> To(h.poly), user |-> To(h.user), dest |-> To(h.dest)]

Canon(h) == CHOOSE c \in {Renamed(h, onMap) : onMap \in CanonOrder(h)} : TRUE

Store(h) ==
  \E g \in {h} : \E c \in {Canon(g)} :
      /\ mapLayers' = c.layers
      /\ allMarkersRef' = c.tracked
      /\ polylineRef' = c.poly
      /\ userMarkerRef' = c.user
      /\ destinationMarkerRef' = c.dest

objectVars == <<mapLayers, allMarkersRef, polylineRef, userMarkerRef,
                destinationMarkerRef>>

Init ==
  /\ displayPins = {}
  /\ isGuest \in BOOLEAN
  /\ geoSupported \in BOOLEAN
  /\ mapRef = FALSE
  /\ mapLayers = {}
  /\ camera = InitialView
  /\ allMarkersRef = <<>>
  /\ polylineRef = 0
  /\ userMarkerRef = 0
  /\ destinationMarkerRef = 0
  /\ isRouteMode = FALSE
  /\ routeDestination = 0
  /\ activeRoute = NoRoute
  /\ pending = <<>>
  /\ timers = <<RetryTimer({})>>
  /\ locating = FALSE
  /\ last = [op |-> "mount", pin |-> 0, cur |-> FALSE, from |-> "Browse", lines |-> 0]

----------------------------------------------------------------------------
(* clearRoute *)

\* "Remove route elements": with a map, the three refs are emptied
RouteRefsCleared(h) ==
  IF mapRef
  THEN [h EXCEPT !.layers = h.layers \ Referenced(h.layers, RouteRefsOf(h)),
                 !.poly = 0, !.user = 0, !.dest = 0]
  ELSE h

\* mutant of SweptLayers: the sweep of clearRoute is left out
SweptLayersNone(layers) == layers

\* mutant of SweptLayers: the sweep takes the markers but not the polylines
SweptLayersMarkersOnly(layers) == {l \in layers : ~IsMarker(l)}

\* mapRef.current.eachLayer: every Marker and every Polyline is removed
SweptLayers(layers) == {l \in layers : ~(IsMarker(l) \/ IsPolyline(l))}

\* mutant of ReAddedMarkers: clearRoute puts no pin back
ReAddedMarkersNone(list, used) == <<>>

\* "RE-ADD ALL PINS": displayPins.forEach(...) of clearRoute's render
ReAddedMarkers(list, used) ==
  IF mapRef /\ list # {} THEN NewMarkers(SortedSeq(list), list, used) ELSE <<>>

\* the layer objects after clearRoute of the render with pin list `list`
AfterClearRoute(list, h) ==
  LET h1 == RouteRefsCleared(h)
      swept == IF mapRef THEN SweptLayers(h1.layers) ELSE h1.layers
      fresh == ReAddedMarkers(list, Ids(swept) \cup RouteRefsOf(h1))
  IN  [h1 EXCEPT !.layers = swept \cup Range(fresh),
                 !.tracked = [j \in DOMAIN fresh |-> fresh[j].id]]

\* mutant of clearRoute: the call is left out, route mode stays on
clearRouteOmitted(list, h) ==
  /\ Store(h)
  /\ isRouteMode' = TRUE
  /\ UNCHANGED <<activeRoute, routeDestination, locating, camera>>

\* clearRoute of the render with pin list `list`, the layer objects being h
clearRoute(list, h) ==
  /\ Store(AfterClearRoute(list, h))
  /\ activeRoute' = NoRoute
  /\ isRouteMode' = FALSE
  /\ routeDestination' = 0
  /\ locating' = FALSE
  /\ camera' = IF mapRef /\ list # {} THEN FlyTo(PinLoc(Min(list)), 13) ELSE camera

----------------------------------------------------------------------------
(* The [displayPins] effect *)

\* addPinsToMap returns early without a map or without pins
AddPinsRuns(map, list) == map /\ list # {}

\* mutant of TrackedRemoved: addPinsToMap leaves the old markers on the map
TrackedRemovedNone(h) == h.layers

\* "Clear existing markers": the tracked markers are taken off the map
TrackedRemoved(h) == h.layers \ Referenced(h.layers, Range(h.tracked))

\* the layer objects after addPinsToMap of the render with pin list `list`
AfterAddPins(map, list, h) ==
  IF AddPinsRuns(map, list)
  THEN LET kept == TrackedRemoved(h)
           fresh == NewMarkers(SortedSeq(list), list, Ids(kept) \cup RouteRefsOf(h))
       IN  [h EXCEPT !.layers = kept \cup Range(fresh),
                     !.tracked = [j \in DOMAIN fresh |-> fresh[j].id]]
  ELSE h

\* mutant of Rendered: the empty state keeps the map and its layers
RenderedKeepsMap(list, h) == h

\* "If no pins, show empty state": the MapContainer is not rendered, so its map
\* and every layer on it are gone
Rendered(list, h) == IF list = {} THEN [h EXCEPT !.layers = {}] ELSE h

\* The parent renders the component with a new pins array (a fetch, a filter
\* or search change, or any re-render: filteredPins is a new array each time).
\* An empty list renders the empty state instead of the MapContainer, which
\* unmounts the map; the effect's cleanup clears its retry timer; the effect
\* runs addPinsToMap and, with no map, sets the retry timer.
PinsUpdate(list) ==
  LET map == mapRef /\ list # {}
      h == Rendered(list, Objects)
      cleaned == FilterSeq(timers, "retry")
  IN  /\ Len(cleaned) < MaxTimers
      /\ displayPins' = list
      /\ mapRef' = map
      /\ Store(AfterAddPins(map, list, h))
      /\ timers' = IF ~map THEN Append(cleaned, RetryTimer(list))
                   ELSE Append(cleaned, FitPinsTimer(list))
      /\ last' = Event("pins", 0, FALSE)
      /\ UNCHANGED <<isGuest, geoSupported, camera, isRouteMode, routeDestination,
                     activeRoute, pending, locating>>

\* react-leaflet hands the new map to mapRef after the MapContainer mounted
MapReady ==
  /\ ~mapRef
  /\ displayPins # {}
  /\ mapRef' = TRUE
  /\ last' = Event("mapReady", 0, FALSE)
  /\ UNCHANGED <<displayPins, isGuest, geoSupported, camera, objectVars,
                 isRouteMode, routeDestination, activeRoute, pending, timers,
                 locating>>

----------------------------------------------------------------------------
(* Timers.  Callbacks of equal delay run in the order they were set, and a *)
(* callback set later with a longer delay runs later.                      *)

CanFire(i) == \A j \in 1..(i - 1) : timers[j].delay > timers[i].delay

\* the retry of the effect: addPinsToMap once more, 500 ms later
RetryFires(i) ==
  /\ i \in DOMAIN timers
  /\ timers[i].kind = "retry"
  /\ CanFire(i)
  /\ Store(AfterAddPins(mapRef, timers[i].cap, Objects))
  /\ timers' = IF AddPinsRuns(mapRef, timers[i].cap)
               THEN Append(RemoveAt(timers, i), FitPinsTimer(timers[i].cap))
               ELSE RemoveAt(timers, i)
  /\ last' = Event("retry", 0, FALSE)
  /\ UNCHANGED <<displayPins, isGuest, geoSupported, mapRef, camera, isRouteMode,
                 routeDestination, activeRoute, pending, locating>>

\* the deferred fitBounds of addPinsToMap
FitPinsFires(i) ==
  /\ i \in DOMAIN timers
  /\ timers[i].kind = "fitPins"
  /\ CanFire(i)
  /\ camera' = IF mapRef THEN FitBounds({PinLoc(p) : p \in timers[i].cap}) ELSE camera
  /\ timers' = RemoveAt(timers, i)
  /\ last' = Event("fitPins", 0, FALSE)
  /\ UNCHANGED <<displayPins, isGuest, geoSupported, mapRef, objectVars,
                 isRouteMode, routeDestination, activeRoute, pending, locating>>

\* the deferred fitBounds of the success callback
FitRouteFires(i) ==
  /\ i \in DOMAIN timers
  /\ timers[i].kind = "fitRoute"
  /\ CanFire(i)
  /\ camera' = IF mapRef THEN FitBounds({timers[i].from, PinLoc(timers[i].pin)})
               ELSE camera
  /\ timers' = RemoveAt(timers, i)
  /\ last' = Event("fitRoute", timers[i].pin, FALSE)
  /\ UNCHANGED <<displayPins, isGuest, geoSupported, mapRef, objectVars,
                 isRouteMode, routeDestination, activeRoute, pending, locating>>

----------------------------------------------------------------------------
(* drawRoute *)

\* "Clear any existing route": the three referenced layers leave the map
RouteRemoved(h) == h.layers \ Referenced(h.layers, RouteRefsOf(h))

\* mutant of MarkersRemoved: only the two route markers are taken off
MarkersRemovedRouteOnly(layers) == {l \in layers : l.kind \notin {"user", "dest"}}

\* "REMOVE ALL OTHER PINS FROM MAP": every Marker layer leaves the map
MarkersRemoved(layers) == {l \in layers : ~IsMarker(l)}

\* the layer objects after drawRoute's synchronous part: no ref is reset
AfterDrawRoute(h) == [h EXCEPT !.layers = MarkersRemoved(RouteRemoved(h))]

\* The route button of marker m's popup, as a guest: an alert and nothing else
RouteButtonGuest(m) ==
  /\ m \in PinMarkersOn(mapLayers)
  /\ isGuest
  /\ last' = Event("guestClick", m.pin, FALSE)
  /\ UNCHANGED <<displayPins, isGuest, geoSupported, mapRef, camera, objectVars,
                 isRouteMode, routeDestination, activeRoute, pending, timers,
                 locating>>

\* The route button of marker m's popup: drawRoute(m.pin) of the render that
\* built the popup, with geolocation there
DrawRoute(m) ==
  /\ m \in PinMarkersOn(mapLayers)
  /\ mapRef
  /\ ~isGuest
  /\ geoSupported
  /\ Len(pending) < MaxPending
  /\ isRouteMode' = TRUE
  /\ routeDestination' = m.pin
  /\ Store(AfterDrawRoute(Objects))
  /\ pending' = Append(pending, Request(m.pin, m.cap))
  /\ locating' = TRUE
  /\ last' = Event("drawRoute", m.pin, FALSE)
  /\ UNCHANGED <<displayPins, isGuest, geoSupported, mapRef, camera, activeRoute,
                 timers>>

\* drawRoute(m.pin) without navigator.geolocation: an alert, then clearRoute
DrawRouteUnsupported(m) ==
  /\ m \in PinMarkersOn(mapLayers)
  /\ mapRef
  /\ ~isGuest
  /\ ~geoSupported
  /\ clearRoute(m.cap, AfterDrawRoute(Objects))
  /\ last' = Event("drawRouteUnsupported", m.pin, FALSE)
  /\ UNCHANGED <<displayPins, isGuest, geoSupported, mapRef, timers, pending>>

\* the RouteState handed to setActiveRoute
RouteStateNoDistance(fix, p) ==
  [from |-> fix, to |-> PinLoc(p), title |-> p, distance |-> 0]

RouteState(fix, p) ==
  [from |-> fix, to |-> PinLoc(p), title |-> p,
   distance |-> calculateDistance(fix.lat, fix.lng, PinLoc(p).lat, PinLoc(p).lng)]

\* the success callback returns early only without a map
SuccessDraws(req) == mapRef

\* the layer objects after the success callback drew the route from fix to p:
\* the three refs are overwritten, whatever they pointed to stays where it is
AfterSuccess(fix, p, h) ==
  LET i1 == FreshId(LiveIds(h))
      i2 == FreshId(LiveIds(h) \cup {i1})
      i3 == FreshId(LiveIds(h) \cup {i1, i2})
  IN  [h EXCEPT !.layers = h.layers \cup {Polyline(i1, fix, p), UserMarker(i2, fix),
                                          DestinationMarker(i3, p)},
                !.poly = i1, !.user = i2, !.dest = i3]

\* The success callback of pending[i], with position fix
PositionResolved(i, fix) ==
  /\ i \in DOMAIN pending
  /\ fix \in UserFixes
  /\ pending' = RemoveAt(pending, i)
  /\ locating' = (locating /\ ~IsCurrent(i))
  /\ last' = Event("positionResolved", pending[i].pin, IsCurrent(i))
  /\ IF SuccessDraws(pending[i])
     THEN /\ Cardinality({l \in mapLayers : IsPolyline(l)}) < MaxLines
          /\ Len(timers) < MaxTimers
          /\ Store(AfterSuccess(fix, pending[i].pin, Objects))
          /\ activeRoute' = RouteState(fix, pending[i].pin)
          /\ camera' = FlyTo(fix, 15)
          /\ timers' = Append(timers, FitRouteTimer(fix, pending[i].pin))
     ELSE UNCHANGED <<objectVars, activeRoute, camera, timers>>
  /\ UNCHANGED <<displayPins, isGuest, geoSupported, mapRef, isRouteMode,
                 routeDestination>>

\* The error callback of pending[i]: an alert, then clearRoute of its render
PositionFailed(i) ==
  /\ i \in DOMAIN pending
  /\ clearRoute(pending[i].cap, Objects)
  /\ pending' = RemoveAt(pending, i)
  /\ last' = Event("positionFailed", pending[i].pin, IsCurrent(i))
  /\ UNCHANGED <<displayPins, isGuest, geoSupported, mapRef, timers>>

\* the route panel, and with it its close button, is rendered
PanelShown == displayPins # {} /\ isRouteMode /\ activeRoute # NoRoute

\* The close button of the route panel: clearRoute of the current render
PanelClose ==
  /\ PanelShown
  /\ clearRoute(displayPins, Objects)
  /\ last' = Event("clearRoute", routeDestination, FALSE)
  /\ UNCHANGED <<displayPins, isGuest, geoSupported, mapRef, timers, pending>>

----------------------------------------------------------------------------

Next ==
  \/ \E list \in SUBSET PinIds : PinsUpdate(list)
  \/ MapReady
  \/ \E i \in 1..MaxTimers : RetryFires(i)
  \/ \E i \in 1..MaxTimers : FitPinsFires(i)
  \/ \E i \in 1..MaxTimers : FitRouteFires(i)
  \/ \E m \in mapLayers : RouteButtonGuest(m)
  \/ \E m \in mapLayers : DrawRoute(m)
  \/ \E m \in mapLayers : DrawRouteUnsupported(m)
  \/ \E i \in 1..MaxPending, fix \in UserFixes : PositionResolved(i, fix)
  \/ \E i \in 1..MaxPending : PositionFailed(i)
  \/ PanelClose

Spec == Init /\ [][Next]_vars

----------------------------------------------------------------------------
(* calculateDistance on its own: the distance between two points of a grid  *)
(* is measured one way and then the other, the result being kept in the     *)
(* RouteState as the success callback keeps it.                             *)

GridCoords ==
  {[lat |-> 30 * i, lng |-> 60 * j] : i \in (0 - MaxGrid)..MaxGrid,
                                      j \in (0 - MaxGrid)..MaxGrid}

\* the distance from a to b, as the call at the success callback makes it
distanceKm(a, b) == calculateDistance(a.lat, a.lng, b.lat, b.lng)

DistInit ==
  /\ displayPins = {}
  /\ isGuest = FALSE
  /\ geoSupported = TRUE
  /\ mapRef = FALSE
  /\ mapLayers = {}
  /\ camera = InitialView
  /\ allMarkersRef = <<>>
  /\ polylineRef = 0
  /\ userMarkerRef = 0
  /\ destinationMarkerRef = 0
  /\ isRouteMode = FALSE
  /\ routeDestination = 0
  /\ activeRoute \in {[from |-> a, to |-> b, title |-> 0, distance |-> 0] :
                        a \in GridCoords, b \in GridCoords}
  /\ pending = <<>>
  /\ timers = <<>>
  /\ locating = FALSE
  /\ last = [op |-> "mount", pin |-> 0, cur |-> FALSE, from |-> "Browse", lines |-> 0]

\* calculateDistance(from, to)
Measure ==
  /\ last.op = "mount"
  /\ activeRoute' = [activeRoute EXCEPT
                       !.distance = distanceKm(activeRoute.from, activeRoute.to)]
  /\ last' = [last EXCEPT !.op = "measure"]
  /\ UNCHANGED <<displayPins, isGuest, geoSupported, mapRef, camera, objectVars,
                 isRouteMode, routeDestination, pending, timers, locating>>

\* calculateDistance(to, from): the same two points, the other way round
MeasureBack ==
  /\ last.op = "measure"
  /\ activeRoute' = [from |-> activeRoute.to, to |-> activeRoute.from, title |-> 0,
                     distance |-> distanceKm(activeRoute.to, activeRoute.from)]
  /\ last' = [last EXCEPT !.op = "measureBack"]
  /\ UNCHANGED <<displayPins, isGuest, geoSupported, mapRef, camera, objectVars,
                 isRouteMode, routeDestination, pending, timers, locating>>

DistNext == Measure \/ MeasureBack

DistSpec == DistInit /\ [][DistNext]_vars

----------------------------------------------------------------------------
(* Properties *)

LinesOn(layers) == {l \in layers : l.kind = "line"}
UserMarkersOn(layers) == {l \in layers : l.kind = "user"}
DestMarkersOn(layers) == {l \in layers : l.kind = "dest"}

\* the pin markers on the map are exactly one marker per pin of `list`
ShowsExactly(list) ==
  /\ {l.pin : l \in PinMarkersOn(mapLayers)} = list
  /\ Cardinality(PinMarkersOn(mapLayers)) = Cardinality(list)

\* C1: ordinary pin markers and route-overlay elements (origin marker,
\* destination marker, line) are never both on the map.
C1_PinsAndRouteExclusive ==
  ~(PinMarkersOn(mapLayers) # {} /\ RouteLayersOn(mapLayers) # {})

\* C2: the success callback of a request that a later requestRoute for another
\* pin superseded draws nothing: the map's layers and the RouteState stay as
\* they were.
C2_SupersededResolveDrawsNothing ==
  [][(/\ last'.op = "positionResolved"
      /\ ~last'.cur
      /\ last'.from \in {"Locating", "RouteActive"}
      /\ last'.pin # routeDestination)
     => (mapLayers' = mapLayers /\ activeRoute' = activeRoute)]_vars

\* C3: a success callback that arrives after clearRoute returned the mode to
\* Browse is discarded: it adds no layer, creates no RouteState and the mode
\* stays Browse.
C3_ResolveAfterClearDiscarded ==
  [][(last'.op = "positionResolved" /\ last'.from = "Browse")
     => (mapLayers' = mapLayers /\ activeRoute' = NoRoute /\ ~isRouteMode')]_vars

\* C4: a pin list that arrives in Locating or RouteActive is only stored: the
\* layers of the map stay as they were.
C4_PinsDeferredInRouteMode ==
  [][(last'.op = "pins" /\ last'.from \in {"Locating", "RouteActive"})
     => (displayPins' \in SUBSET PinIds /\ mapLayers' = mapLayers)]_vars

\* C5: the map holds at most one origin marker, at most one destination marker
\* and at most one route line.
C5_AtMostOneRouteOverlay ==
  /\ Cardinality(LinesOn(mapLayers)) <= 1
  /\ Cardinality(UserMarkersOn(mapLayers)) <= 1
  /\ Cardinality(DestMarkersOn(mapLayers)) <= 1

\* C6: requestRoute(pin) in Browse (map there, not a guest, geolocation
\* supported) ends in Locating(pin): route mode on with pin as target, no
\* ordinary pin marker on the map, and a position request for pin pending.
C6_RequestRouteEntersLocating ==
  (last.op = "drawRoute" /\ last.from = "Browse")
  => /\ Mode = "Locating"
     /\ routeDestination = last.pin
     /\ PinMarkersOn(mapLayers) = {}
     /\ pending # <<>>
     /\ pending[Len(pending)].pin = last.pin

\* C6 witness: a route was requested in Browse from a map that showed both pins
C6_Witness ==
  /\ last.op = "drawRoute"
  /\ last.from = "Browse"
  /\ Len(allMarkersRef) = MaxPins
  /\ isRouteMode

\* C7: positionResolved(coord) in Locating(pin), the map being there, ends in
\* RouteActive with exactly two markers (origin at coord, destination at the
\* pin), exactly one line, and no ordinary pin marker.
C7_ResolvedDrawsExactlyOneRoute ==
  (last.op = "positionResolved" /\ last.cur /\ last.from = "Locating" /\ mapRef)
  => /\ Mode = "RouteActive"
     /\ Cardinality(LinesOn(mapLayers)) = 1
     /\ Cardinality(UserMarkersOn(mapLayers)) = 1
     /\ Cardinality(DestMarkersOn(mapLayers)) = 1
     /\ \A l \in UserMarkersOn(mapLayers) : l.at = activeRoute.from
     /\ \A l \in DestMarkersOn(mapLayers) : l.pin = last.pin /\ l.at = PinLoc(last.pin)
     /\ PinMarkersOn(mapLayers) = {}

\* C8: clearRoute in RouteActive, the map being there, ends in Browse with no
\* route element on the map and exactly one pin marker per pin of the current
\* pin list.
C8_ClearRouteRestoresPins ==
  (last.op = "clearRoute" /\ last.from = "RouteActive" /\ mapRef)
  => /\ Mode = "Browse"
     /\ RouteLayersOn(mapLayers) = {}
     /\ activeRoute = NoRoute
     /\ ShowsExactly(displayPins)

\* C8 witness: the panel was closed on a drawn route and both pins are back
C8_Witness ==
  /\ last.op = "clearRoute"
  /\ last.from = "RouteActive"
  /\ mapRef
  /\ Cardinality(PinMarkersOn(mapLayers)) = MaxPins

\* C9: positionFailed in Locating(pin), the map being there, ends in Browse with
\* no route marker or line, no RouteState, and the pins of the list the route
\* was requested from displayed again, one marker each.
C9_FailureReturnsToBrowse ==
  (last.op = "positionFailed" /\ last.cur /\ last.from = "Locating" /\ mapRef)
  => /\ Mode = "Browse"
     /\ RouteLayersOn(mapLayers) = {}
     /\ activeRoute = NoRoute
     /\ \E list \in SUBSET PinIds :
          /\ last.pin \in list
          /\ ShowsExactly(list)
          /\ \A l \in PinMarkersOn(mapLayers) : l.cap = list

\* C9 witness: the fix of the request being waited for failed, and the pins of
\* its list are back on the map
C9_Witness ==
  /\ last.op = "positionFailed"
  /\ last.cur
  /\ last.from = "Locating"
  /\ mapRef
  /\ Cardinality(PinMarkersOn(mapLayers)) = MaxPins

\* C10: a RouteState exists only in RouteActive; in particular requestRoute
\* issued in RouteActive re-enters Locating and destroys the RouteState.
C10_RouteStateOnlyInRouteActive ==
  (last.op = "drawRoute" /\ last.from = "RouteActive")
  => (Mode = "Locating" /\ activeRoute = NoRoute)

\* the pin ids that have a marker on the map
ShownPins(layers) == {l.pin : l \in PinMarkersOn(layers)}

\* C11: after addPinsToMap ran in Browse for list P (the effect or its retry,
\* the map being there, or P empty), the ids of the pin markers on the map are
\* exactly the ids of P.
C11_SyncShowsList ==
  (/\ last.op \in {"pins", "retry"}
   /\ last.from = "Browse"
   /\ (mapRef \/ displayPins = {}))
  => ShownPins(mapLayers) = displayPins

\* C11 witness: the list shrank from both pins to the last one and was synced
C11_Witness ==
  /\ last.op = "pins"
  /\ last.from = "Browse"
  /\ mapRef
  /\ displayPins = {MaxPins}
  /\ timers = <<FitPinsTimer(PinIds), FitPinsTimer({MaxPins})>>

\* C12: addPinsToMap is idempotent: run in Browse for a list P right after a
\* run for the same P, it leaves the same pin ids displayed, one marker each
\* as before.
C12_SyncIdempotent ==
  [][(/\ last.op = "pins"
      /\ last'.op = "pins"
      /\ last.from = "Browse"
      /\ last'.from = "Browse"
      /\ displayPins' = displayPins)
     => (/\ ShownPins(mapLayers') = ShownPins(mapLayers)
         /\ Cardinality(PinMarkersOn(mapLayers')) = Cardinality(PinMarkersOn(mapLayers)))]_vars

\* C12 witness: the full list was synced twice in a row (both deferred fits of
\* the two runs are still pending) and every pin has its one marker
C12_Witness ==
  /\ last.op = "pins"
  /\ last.from = "Browse"
  /\ mapRef
  /\ displayPins = PinIds
  /\ timers = <<FitPinsTimer(PinIds), FitPinsTimer(PinIds)>>
  /\ ShowsExactly(PinIds)

\* C13: an empty pin list leaves no pin marker displayed, whatever was
\* displayed before, also when it is supplied twice.
C13_EmptyListShowsNothing ==
  (last.op = "pins" /\ displayPins = {}) => Cardinality(PinMarkersOn(mapLayers)) = 0

\* C13 witness: the list became empty while markers for every pin were tracked
C13_Witness ==
  /\ last.op = "pins"
  /\ displayPins = {}
  /\ Len(allMarkersRef) = MaxPins
  /\ ~mapRef

\* C14: in Browse, after a sync or a return from route mode (the map being
\* there), no pin has more than one marker and the number of pin markers on
\* the map is the number of pins of the current list.
C14_OneMarkerPerPinInBrowse ==
  (/\ last.op \in {"pins", "retry", "clearRoute", "positionFailed",
                   "drawRouteUnsupported"}
   /\ Mode = "Browse"
   /\ mapRef)
  => /\ \A l1, l2 \in PinMarkersOn(mapLayers) : l1.pin = l2.pin => l1 = l2
     /\ Cardinality(PinMarkersOn(mapLayers)) = Cardinality(displayPins)

\* C15: after clearRoute ran (the close button, the error callback, or
\* drawRoute without geolocation), the map being there, no origin marker, no
\* destination marker and no route line is on the map, whichever request drew
\* them.
C15_ClearLeavesNoRouteElement ==
  (last.op \in {"clearRoute", "positionFailed", "drawRouteUnsupported"} /\ mapRef)
  => RouteLayersOn(mapLayers) = {}

\* C15 witness: the panel was closed while the map held the lines of two
\* requests, and none is left
C15_Witness ==
  /\ last.op = "clearRoute"
  /\ last.lines = MaxLines
  /\ mapRef
  /\ LinesOn(mapLayers) = {}

\* the route a deferred fit was set for is no longer the overlay of the map:
\* the line polylineRef points to is not on the map or is another route's
StaleFit(t) ==
  ~\E l \in LinesOn(mapLayers) : l.id = polylineRef /\ l.pin = t.pin /\ l.at = t.from

\* C16: the deferred fit of a route whose overlay was removed meanwhile (by
\* clearRoute or by a later requestRoute) does nothing: no camera move, no
\* layer added.
C16_StaleFitIsNoOp ==
  [][\A i \in DOMAIN timers :
       (/\ last'.op = "fitRoute"
        /\ timers[i].kind = "fitRoute"
        /\ timers' = RemoveAt(timers, i)
        /\ mapRef
        /\ StaleFit(timers[i]))
       => (camera' = camera /\ mapLayers' = mapLayers)]_vars

\* the layer objects that clearRoute followed by drawRoute leave
ClearedThenRequested == AfterDrawRoute(AfterClearRoute(displayPins, Objects))

\* C17: requestRoute(otherPin) in RouteActive ends as clearRoute followed by
\* requestRoute(otherPin) does: Locating(otherPin), no RouteState, and the map
\* content of that sequence (no route element, no pin marker).
C17_ReRequestEqualsClearThenRequest ==
  [][(/\ last'.op = "drawRoute"
      /\ last'.from = "RouteActive"
      /\ last'.pin # routeDestination)
     => (/\ isRouteMode' /\ locating'
         /\ routeDestination' = last'.pin
         /\ activeRoute' = NoRoute
         /\ mapLayers' = Canon(ClearedThenRequested).layers
         /\ RouteLayersOn(mapLayers') = {}
         /\ PinMarkersOn(mapLayers') = {})]_vars

\* C18: the camera moves of a drawn route come in order.  The success callback
\* flies to the origin at zoom 15 and leaves the fit of origin and destination
\* pending as the newest timer; the fit is made only when that timer fires.
C18_OriginMoveBeforeFit ==
  /\ (last.op = "positionResolved" /\ mapRef)
     => /\ camera.op = "flyTo"
        /\ camera.sw = activeRoute.from
        /\ camera.zoom = 15
        /\ timers # <<>>
        /\ timers[Len(timers)].kind = "fitRoute"
        /\ timers[Len(timers)].delay = 1600
        /\ timers[Len(timers)].from = activeRoute.from
        /\ timers[Len(timers)].pin = last.pin
  /\ (last.op = "fitRoute" /\ mapRef)
     => /\ camera.op = "fitBounds"
        /\ \E fix \in UserFixes :
             /\ camera.sw = [lat |-> Min({fix.lat, PinLoc(last.pin).lat}),
                             lng |-> Min({fix.lng, PinLoc(last.pin).lng})]
             /\ camera.ne = [lat |-> Max({fix.lat, PinLoc(last.pin).lat}),
                             lng |-> Max({fix.lng, PinLoc(last.pin).lng})]

\* C18 witness: the fit of the route on display has been made
C18_Witness ==
  /\ last.op = "fitRoute"
  /\ mapRef
  /\ RouteActive
  /\ Cardinality(LinesOn(mapLayers)) = 1
  /\ camera.op = "fitBounds"
  /\ activeRoute.from \in UserFixes
  /\ activeRoute.to = PinLoc(last.pin)

\* C19: calculateDistance is symmetric: measured from b to a it gives what it
\* gave from a to b.
C19_DistanceSymmetric ==
  [][(last'.op = "measureBack") => (activeRoute'.distance = activeRoute.distance)]_vars

\* C19 witness: two points far apart have been measured both ways
C19_Witness ==
  /\ last.op = "measureBack"
  /\ activeRoute.from # activeRoute.to
  /\ activeRoute.from.lat < 0
  /\ activeRoute.distance > 1000

\* C20: a failure callback of a request that is no longer the one waited for,
\* arriving in Locating or RouteActive for another pin, changes nothing: the
\* mode, the target, the RouteState and the layers of the map stay as they are.
C20_LateFailureMutatesNothing ==
  [][(/\ last'.op = "positionFailed"
      /\ ~last'.cur
      /\ last'.from \in {"Locating", "RouteActive"}
      /\ last'.pin # routeDestination)
     => (/\ isRouteMode' = isRouteMode
         /\ routeDestination' = routeDestination
         /\ activeRoute' = activeRoute
         /\ mapLayers' = mapLayers)]_vars

\* C21: a position request is issued by drawRoute entering Locating, exactly
\* one per entry, and by nothing else; the error callback takes its request
\* away and issues no other.
C21_OneRequestPerLocatingEntry ==
  [][/\ (last'.op = "drawRoute")
        => (/\ Len(pending') = Len(pending) + 1
            /\ pending'[Len(pending')].pin = last'.pin
            /\ isRouteMode' /\ locating')
     /\ (last'.op # "drawRoute") => (Len(pending') <= Len(pending))
     /\ (last'.op = "positionFailed") => (Len(pending') = Len(pending) - 1)]_vars

\* C21 witness: the one request of a Locating entry failed and none is pending
C21_Witness ==
  /\ last.op = "positionFailed"
  /\ last.cur
  /\ last.from = "Locating"
  /\ pending = <<>>
  /\ ~isRouteMode

\* C22: requestRoute(pin) without geolocation support issues no position
\* request and ends in Browse with one marker per pin of the list displayed
\* and no route element and no RouteState.
C22_UnsupportedReturnsToBrowse ==
  (last.op = "drawRouteUnsupported")
  => /\ Mode = "Browse"
     /\ pending = <<>>
     /\ RouteLayersOn(mapLayers) = {}
     /\ activeRoute = NoRoute
     /\ routeDestination = 0
     /\ ShowsExactly(displayPins)

\* C22 witness: a route was requested without geolocation and both pins are
\* back on the map
C22_Witness ==
  /\ last.op = "drawRouteUnsupported"
  /\ ~geoSupported
  /\ mapRef
  /\ Cardinality(PinMarkersOn(mapLayers)) = MaxPins

\* C23: clearRoute called with no route element on the map (the engine being
\* in Browse already, the map being there) leaves the map surface as it is:
\* the same layers and no camera move.
C23_ClearWithoutRouteIsNoOp ==
  [][(/\ last'.op \in {"clearRoute", "positionFailed"}
      /\ last'.from = "Browse"
      /\ mapRef
      /\ RouteLayersOn(mapLayers) = {}
      /\ ShowsExactly(displayPins)
      /\ \A i \in DOMAIN pending : pending[i].cap = displayPins)
     => (mapLayers' = mapLayers /\ camera' = camera)]_vars

\* C24: without a map, addPinsToMap and clearRoute change neither the layers
\* nor the mode of the engine.
C24_NoMapNoChange ==
  [][(/\ ~mapRef
      /\ last'.op \in {"pins", "retry", "clearRoute", "positionFailed"})
     => (/\ mapLayers' = mapLayers
         /\ isRouteMode' = isRouteMode
         /\ routeDestination' = routeDestination
         /\ activeRoute' = activeRoute)]_vars

\* C25: the RouteState created by the success callback of the current request
\* for pin p, with position coord, has origin coord, destination the coordinate
\* and title of p and distance calculateDistance(coord, coordinate of p); the
\* origin marker stands at coord and the line runs from coord to p.
C25_RouteStateFromFix ==
  (last.op = "positionResolved" /\ last.cur /\ last.from = "Locating" /\ mapRef)
  => /\ activeRoute # NoRoute
     /\ activeRoute.from \in UserFixes
     /\ activeRoute.to = PinLoc(last.pin)
     /\ activeRoute.title = last.pin
     /\ activeRoute.distance > 0
     /\ activeRoute.distance = distanceKm(activeRoute.from, PinLoc(last.pin))
     /\ \E u \in UserMarkersOn(mapLayers) :
          u.id = userMarkerRef /\ u.at = activeRoute.from
     /\ \E l \in LinesOn(mapLayers) :
          l.id = polylineRef /\ l.at = activeRoute.from /\ l.pin = last.pin
     /\ \E d \in DestMarkersOn(mapLayers) :
          d.id = destinationMarkerRef /\ d.pin = last.pin
C25_Witness ==
  /\ last.op = "positionResolved" /\ last.cur /\ last.from = "Locating" /\ mapRef
  /\ activeRoute # NoRoute /\ Cardinality(LinesOn(mapLayers)) = 1

\* C26: after a failed position request returned the engine to Browse, the pin
\* markers on the map are those of the pin list supplied last.
C26_FailureShowsLatestList ==
  (last.op = "positionFailed" /\ last.cur /\ last.from = "Locating" /\ mapRef)
  => ShowsExactly(displayPins)

\* C27: in every Locating state the route panel with its close button is
\* shown, so that clearRoute is available to the viewer.
C27_LocatingCanBeLeft == (Locating /\ mapRef) => PanelShown

\* C28: while there is a map, the markers tracked in allMarkersRef are
\* exactly the pin markers on the map.
C28_TrackedAreOnMap ==
  mapRef => (Range(allMarkersRef) = Ids(PinMarkersOn(mapLayers)))

\* C29: whenever the route panel is shown, its RouteState is the one of the
\* target pin routeDestination.
C29_PanelShowsTarget == PanelShown => activeRoute.title = routeDestination

====
